---- MODULE Spec2Model ----
(***************************************************************************)
(* hydra_profiler: the background MemorySampler, the memory-sampling       *)
(* ProfilerCallback (psutil_profiler.py) and the memray ProfilerCallback   *)
(* (profiler.py), with the timing / profile files they write.              *)
(*                                                                         *)
(* Time is a discrete wall clock `now`, counted in ticks of TickUs         *)
(* microseconds; time.time() and datetime.now() both read it.  A float     *)
(* number of seconds is represented by its integer number of microseconds, *)
(* and the float quotient sum/len by the exact fraction in lowest terms.   *)
(***************************************************************************)
EXTENDS Integers, Sequences, FiniteSets, TLC

\* ---------------------------------------------------------------- bounds
MaxTicks == 2
TickUs == 500000
MaxSamplers == 2
MaxThreads == 2
MaxRss == 2
Interval == 1
NumControllers == 2
MaxTrackers == 2
MaxExits == 2
MaxJobTicks == 1
MaxBrokenJobs == 1
MaxTimedTicks == 2

\* ------------------------------------------------------- program constants
UsPerSec == 1000000

None == 0

VARIABLES
  now,          \* the wall clock, in ticks
  nsamplers,    \* MemorySampler objects constructed so far (ids 1..nsamplers)
  sdata,        \* sampler id -> self.data
  srunning,     \* sampler id -> self._running
  sthread,      \* sampler id -> self._thread (a thread id, or None)
  nthreads,     \* threading.Thread objects started so far (ids 1..nthreads)
  towner,       \* thread id -> the sampler whose _sample it runs
  tpc,          \* thread id -> "unborn" | "check" | "body" | "append" | "sleep" | "dead"
  twake,        \* thread id -> the tick at which its time.sleep ends
  tstamp,       \* thread id -> its local `timestamp`, read and not yet appended
  fpc,          \* foreground task: "idle" | "stop_join" | "end_join"
  fcur,         \* the sampler the foreground task is stopping
  fpre,         \* snapshot taken when the blocking call began
  mem_sampler,  \* psutil ProfilerCallback.mem_sampler (None: attribute not set)
  stats,        \* the object returned by the last get_stats()
  timing,       \* timing path -> file
  profile,      \* the <job>.profile.json file
  last,         \* the last call the foreground task completed
  prev,         \* the call completed before it
  stopReturned, \* sampler id -> stop() has returned and start() was not called since
  stamps,       \* timing path -> the clock readings its last start and end hook wrote
  memray_tracker, \* memray controller instance -> self.memray_tracker (a tracker id, or None)
  ntrackers,    \* memray Tracker objects constructed so far (ids 1..ntrackers)
  trstate,      \* tracker id -> "unused" | "created" | "active" | "closed"
  trkind,       \* tracker id -> the scope whose start hook constructed it
  trexits,      \* tracker id -> number of __exit__ calls made on it
  mlast,        \* the last memray hook completed
  tracking,     \* controller -> a start hook succeeded and no end hook completed since
  copied,       \* the last copy of a memray controller to a new process image
  nest          \* progress of controller 1 through multirun_start (job_start job_end)* multirun_end

samplerVars == <<nsamplers, sdata, srunning, sthread>>
threadVars == <<nthreads, towner, tpc, twake, tstamp>>
fgVars == <<fpc, fcur, fpre>>
fileVars == <<timing, profile>>
histVars == <<last, prev, stopReturned, stamps>>
memrayVars == <<memray_tracker, ntrackers, trstate, trkind, trexits, mlast, tracking,
                copied, nest>>
vars == <<now, samplerVars, threadVars, fgVars, mem_sampler, stats, fileVars, histVars,
          memrayVars>>

Samplers == 1..MaxSamplers
Threads == 1..MaxThreads
Controllers == 1..NumControllers
Trackers == 1..MaxTrackers
\* <job>.timing.json (psutil_profiler.py); multirun.timing.json, run.timing.json and
\* job.<job>.timing.json (profiler.py)
Paths == {"psjob", "multirun", "run", "job"}

\* ------------------------------------------------------------ the clock

\* time.time(): the clock as a float number of seconds (in microseconds)
time_time == now * TickUs

\* datetime.now(): the clock as a datetime with second and microsecond fields
datetime_now == [sec |-> time_time \div UsPerSec, us |-> time_time % UsPerSec]

\* datetime.isoformat(): the fractional field is left out when microsecond is 0
isoformat(dt) == IF dt.us = 0 THEN <<dt.sec>> ELSE <<dt.sec, dt.us>>

\* a parser that drops the fractional field
fromisoformatNoFraction(str) == [sec |-> str[1], us |-> 0]

\* datetime.fromisoformat(): a missing fractional field reads as 0 microseconds
fromisoformat(str) ==
  [sec |-> str[1], us |-> IF Len(str) >= 2 THEN str[2] ELSE 0]

\* datetime - datetime: a timedelta normalised to 0 <= microseconds < 10^6
datetime_sub(a, b) ==
  IF a.us >= b.us
    THEN [seconds |-> a.sec - b.sec, microseconds |-> a.us - b.us]
    ELSE [seconds |-> a.sec - b.sec - 1, microseconds |-> a.us + UsPerSec - b.us]

\* timedelta.total_seconds(), in microseconds
total_seconds(td) == td.seconds * UsPerSec + td.microseconds

\* ------------------------------------------------------------ the files

NoIso == <<>>
EmptyDict == [keys |-> {}, start |-> NoIso, end |-> NoIso, duration_seconds |-> 0]
\* parses: json.loads accepts the text of the file
NoFile == [exists |-> FALSE, parses |-> FALSE, json |-> EmptyDict]
FileOf(d) == [exists |-> TRUE, parses |-> TRUE, json |-> d]

\* timings = {"start": st.isoformat()}; timing_fp.write_text(json.dumps(timings))
StartRecord(st) == [EmptyDict EXCEPT !.keys = {"start"}, !.start = isoformat(st)]

\* timings["end"] = ...; timings["duration_seconds"] = (end - fromisoformat(start))...
EndRecord(timings, end) ==
  [timings EXCEPT !.keys = @ \cup {"end", "duration_seconds"},
                  !.end = isoformat(end),
                  !.duration_seconds =
                     total_seconds(datetime_sub(end, fromisoformat(timings.start)))]

\* what reading and updating the timing file raises, if anything
EndRaises(file) ==
  IF ~file.exists THEN "FileNotFoundError"
  ELSE IF ~file.parses THEN "JSONDecodeError"
  ELSE IF "start" \notin file.json.keys THEN "KeyError"
  ELSE "none"

\* a hook that writes the file back once timings["end"] is set, before the
\* duration is computed
EndWriteBeforeDuration(file, end) ==
  IF ~file.exists \/ ~file.parses THEN file
  ELSE IF "start" \in file.json.keys THEN FileOf(EndRecord(file.json, end))
  ELSE FileOf([file.json EXCEPT !.keys = @ \cup {"end"}, !.end = isoformat(end)])

\* the timing file after an end hook has read, completed and written it back:
\* whatever raises does so before write_text is reached
EndWrite(file, end) ==
  IF EndRaises(file) = "none" THEN FileOf(EndRecord(file.json, end)) ELSE file

\* ------------------------------------------------------ MemorySampler

RECURSIVE Gcd(_, _)
Gcd(a, b) == IF b = 0 THEN a ELSE Gcd(b, a % b)

\* the float a / b, as the fraction in lowest terms
TrueDiv(a, b) == LET g == Gcd(a, b) IN [num |-> a \div g, den |-> b \div g]

RECURSIVE sum(_)
sum(values) == IF values = <<>> THEN 0 ELSE Head(values) + sum(Tail(values))

\* the last value instead of the greatest
maxLast(values) == values[Len(values)]

RECURSIVE max(_)
max(values) ==
  IF Len(values) = 1 THEN Head(values)
  ELSE LET m == max(Tail(values)) IN IF Head(values) > m THEN Head(values) ELSE m

\* get_stats(): "data" is self.data itself (the sampler's id) unless it is empty,
\* in which case a new empty list is returned (None)
get_stats(s, data) ==
  IF data = <<>>
    THEN [average |-> [num |-> 0, den |-> 1], peak |-> 0, data |-> None]
    ELSE LET rss_values == [i \in 1..Len(data) |-> data[i].rss]
         IN [average |-> TrueDiv(sum(rss_values), Len(rss_values)),
             peak |-> max(rss_values),
             data |-> s]

\* every result referring to the list of the first sampler made, as if the
\* samplers shared one list
StatsDataShared(st) == IF st.data = None THEN <<>> ELSE sdata[1]

\* the list a get_stats() result's "data" refers to, as it reads now
StatsData(st) == IF st.data = None THEN <<>> ELSE sdata[st.data]

NoStats == [average |-> [num |-> 0, den |-> 1], peak |-> 0, data |-> None]

\* start() without its guard
StartGuardAlways(s) == TRUE

\* start(): the guard `if not self._running`
StartGuard(s) == ~srunning[s]

\* stop() without its guard
StopGuardAlways(s) == TRUE

\* stop(): the guard `if self._thread is not None`
StopGuard(s) == sthread[s] # None

\* a sampler's fields, with the number of threads started so far
Snap(s) ==
  IF s = None
    THEN [data |-> <<>>, running |-> FALSE, thread |-> None, spawned |-> nthreads]
    ELSE [data |-> sdata[s], running |-> srunning[s], thread |-> sthread[s],
          spawned |-> nthreads]

Call(op, s, raised, pre, post, ret) ==
  [op |-> op, s |-> s, raised |-> raised, pre |-> pre, post |-> post, ret |-> ret]

NoCall == Call("none", None, "none", Snap(None), Snap(None), <<>>)

\* what is kept of the call before the last one
Prev(call) == [op |-> call.op, s |-> call.s, post |-> call.post]

\* the foreground task returns from (or raises out of) a call
Return(op, s, raised, pre, post, ret) ==
  /\ last' = Call(op, s, raised, pre, post, ret)
  /\ prev' = Prev(last)

AliveThreads(s) ==
  {t \in Threads : towner[t] = s /\ tpc[t] \in {"check", "body", "append", "sleep"}}

\* MemorySampler(interval): the sampler object a direct client works with
Construct ==
  /\ fpc = "idle"
  /\ nsamplers = 0
  /\ nsamplers' = nsamplers + 1
  /\ sdata' = [sdata EXCEPT ![nsamplers + 1] = <<>>]
  /\ srunning' = [srunning EXCEPT ![nsamplers + 1] = FALSE]
  /\ sthread' = [sthread EXCEPT ![nsamplers + 1] = None]
  /\ Return("init", nsamplers + 1, "none", Snap(None), Snap(None), <<>>)
  /\ UNCHANGED <<now, threadVars, fgVars, mem_sampler, stats, fileVars, stopReturned,
                 stamps, memrayVars>>

\* the effect of start() on sampler s: a thread is created and started only
\* when the sampler is not running
StartEffect(s) ==
  IF StartGuard(s)
    THEN /\ nthreads < MaxThreads
         /\ srunning' = [srunning EXCEPT ![s] = TRUE]
         /\ sthread' = [sthread EXCEPT ![s] = nthreads + 1]
         /\ nthreads' = nthreads + 1
         /\ towner' = [towner EXCEPT ![nthreads + 1] = s]
         /\ tpc' = [tpc EXCEPT ![nthreads + 1] = "check"]
         /\ UNCHANGED <<twake, tstamp>>
    ELSE UNCHANGED <<srunning, sthread, threadVars>>

\* sampler.start()
Start(s) ==
  /\ fpc = "idle"
  /\ s <= nsamplers
  /\ StartEffect(s)
  /\ last' = Call("start", s, "none", Snap(s),
                  [data |-> sdata[s], running |-> srunning'[s], thread |-> sthread'[s],
                   spawned |-> nthreads'], <<>>)
  /\ prev' = Prev(last)
  /\ stopReturned' = [stopReturned EXCEPT ![s] = FALSE]
  /\ UNCHANGED <<now, nsamplers, sdata, fgVars, mem_sampler, stats, fileVars, stamps,
                 memrayVars>>

\* sampler.stop(), up to the join: self._running = False
StopBegin(s) ==
  /\ fpc = "idle"
  /\ s <= nsamplers
  /\ srunning' = [srunning EXCEPT ![s] = FALSE]
  /\ fpc' = "stop_join"
  /\ fcur' = s
  /\ fpre' = Snap(s)
  /\ UNCHANGED <<now, nsamplers, sdata, sthread, threadVars, mem_sampler, stats,
                 fileVars, histVars, memrayVars>>

\* a join() that returns without waiting for the thread
JoinedAtOnce(s) == sthread[s] # None

\* self._thread.join() may return: the thread has terminated
Joined(s) == sthread[s] # None /\ tpc[sthread[s]] = "dead"

\* what stop() raises after self._running = False: joining None fails
StopRaises(s) == IF StopGuard(s) /\ sthread[s] = None THEN "AttributeError" ELSE "none"

\* stop() without waiting for the join
StopReadyNoJoin(s) == TRUE

\* stop() can go on: there is nothing to join, or the join has returned
StopReady(s) == ~StopGuard(s) \/ sthread[s] = None \/ Joined(s)

\* sampler.stop(), from the join on: self._thread = None
StopEnd(s) ==
  /\ fpc = "stop_join"
  /\ fcur = s
  /\ StopReady(s)
  /\ sthread' = [sthread EXCEPT ![s] = IF StopGuard(s) /\ Joined(s) THEN None ELSE @]
  /\ fpc' = "idle"
  /\ fcur' = None
  /\ last' = Call("stop", s, StopRaises(s), fpre,
                  [data |-> sdata[s], running |-> srunning[s], thread |-> sthread'[s],
                   spawned |-> nthreads], <<>>)
  /\ prev' = Prev(last)
  /\ stopReturned' = [stopReturned EXCEPT ![s] = (StopRaises(s) = "none")]
  /\ UNCHANGED <<now, nsamplers, sdata, srunning, threadVars, fpre, mem_sampler, stats,
                 fileVars, stamps, memrayVars>>

\* sampler.get_stats()
GetStats(s) ==
  /\ fpc = "idle"
  /\ s <= nsamplers
  /\ stats' = get_stats(s, sdata[s])
  /\ Return("get_stats", s, "none", Snap(s), Snap(s),
            [average |-> stats'.average, peak |-> stats'.peak,
             data |-> IF stats'.data = None THEN <<>> ELSE sdata[stats'.data]])
  /\ UNCHANGED <<now, samplerVars, threadVars, fgVars, mem_sampler, fileVars,
                 stopReturned, stamps, memrayVars>>

\* _sample: the first loop test `while self._running` of a started thread
SampleCheck(t) ==
  /\ tpc[t] = "check"
  /\ tpc' = [tpc EXCEPT ![t] = IF srunning[towner[t]] THEN "body" ELSE "dead"]
  /\ UNCHANGED <<now, samplerVars, nthreads, towner, twake, tstamp, fgVars, mem_sampler,
                 stats, fileVars, histVars, memrayVars>>

\* _sample: timestamp = time.time()
SampleMeasure(t) ==
  /\ tpc[t] = "body"
  /\ tstamp' = [tstamp EXCEPT ![t] = time_time]
  /\ tpc' = [tpc EXCEPT ![t] = "append"]
  /\ UNCHANGED <<now, samplerVars, nthreads, towner, twake, fgVars, mem_sampler, stats,
                 fileVars, histVars, memrayVars>>

\* a sampler the controller has replaced in self.mem_sampler: only its own
\* thread still refers to it, and nothing reads its list any more
Dropped(s) == mem_sampler # None /\ s # mem_sampler

\* _sample: read the rss, append the sample, go to sleep.  by: the thread that
\* recorded the sample (kept for the record; the program's sample has the two
\* keys timestamp and rss).  What is appended to the list of a dropped sampler
\* is not kept.
SampleAppend(t) ==
  /\ tpc[t] = "append"
  /\ \E rss \in 1..MaxRss :
       sdata' = [sdata EXCEPT ![towner[t]] =
                   IF Dropped(towner[t]) THEN @
                   ELSE Append(@, [timestamp |-> tstamp[t], rss |-> rss, by |-> t])]
  /\ tpc' = [tpc EXCEPT ![t] = "sleep"]
  /\ twake' = [twake EXCEPT ![t] = now + Interval]
  /\ tstamp' = [tstamp EXCEPT ![t] = 0]
  /\ UNCHANGED <<now, nsamplers, srunning, sthread, nthreads, towner, fgVars,
                 mem_sampler, stats, fileVars, histVars, memrayVars>>

\* a loop that goes on without testing self._running
SampleWakeUntested(t) ==
  /\ tpc[t] = "sleep"
  /\ now >= twake[t]
  /\ tpc' = [tpc EXCEPT ![t] = "body"]
  /\ twake' = [twake EXCEPT ![t] = 0]
  /\ UNCHANGED <<now, samplerVars, nthreads, towner, tstamp, fgVars, mem_sampler,
                 stats, fileVars, histVars, memrayVars>>

\* a sleep that returns at once
SampleWakeAtOnce(t) ==
  /\ tpc[t] = "sleep"
  /\ tpc' = [tpc EXCEPT ![t] = IF srunning[towner[t]] THEN "body" ELSE "dead"]
  /\ twake' = [twake EXCEPT ![t] = 0]
  /\ UNCHANGED <<now, samplerVars, nthreads, towner, tstamp, fgVars, mem_sampler,
                 stats, fileVars, histVars, memrayVars>>

\* _sample: time.sleep(self.interval) has returned and the loop test
\* `while self._running` is made again (the return of sleep changes nothing the
\* program can see, so it is taken together with the test that follows it)
SampleWake(t) ==
  /\ tpc[t] = "sleep"
  /\ now >= twake[t]
  /\ tpc' = [tpc EXCEPT ![t] = IF srunning[towner[t]] THEN "body" ELSE "dead"]
  /\ twake' = [twake EXCEPT ![t] = 0]
  /\ UNCHANGED <<now, samplerVars, nthreads, towner, tstamp, fgVars, mem_sampler,
                 stats, fileVars, histVars, memrayVars>>

\* the wall clock advances
Tick ==
  /\ now < MaxTicks
  /\ now' = now + 1
  /\ UNCHANGED <<samplerVars, threadVars, fgVars, mem_sampler, stats, fileVars,
                 histVars, memrayVars>>

\* --------------------------------- ProfilerCallback (psutil_profiler.py)

NoProfile ==
  [exists |-> FALSE,
   json |-> [timing |-> EmptyDict,
             memory_stats |-> [average_rss_bytes |-> [num |-> 0, den |-> 1],
                               peak_rss_bytes |-> 0, samples |-> <<>>]]]

\* a result built from the timing file as it was read, before end and
\* duration_seconds were set
ProfileRecordAsRead(timings, mem_stats) ==
  [exists |-> TRUE,
   json |-> [timing |-> timing["psjob"].json,
             memory_stats |-> [average_rss_bytes |-> mem_stats.average,
                               peak_rss_bytes |-> mem_stats.peak,
                               samples |-> StatsData(mem_stats)]]]

\* result = {"timing": timings, "memory_stats": {...}}; json.dumps(result)
ProfileRecord(timings, mem_stats) ==
  [exists |-> TRUE,
   json |-> [timing |-> timings,
             memory_stats |-> [average_rss_bytes |-> mem_stats.average,
                               peak_rss_bytes |-> mem_stats.peak,
                               samples |-> StatsData(mem_stats)]]]

\* by: the controller instance whose start hook wrote the start (None: the
\* memory-sampling controller); stop: the clock when the memory-sampling
\* controller's on_job_end was called, end being read once its stop() has returned
NoStamp == [start |-> -1, stop |-> -1, end |-> -1, by |-> None]

\* on_job_start: a new MemorySampler, the timing file with its start, sampler.start()
PsOnJobStart ==
  /\ fpc = "idle"
  /\ nsamplers < MaxSamplers
  /\ LET n == nsamplers + 1 IN
       /\ nsamplers' = n
       /\ sdata' = [sdata EXCEPT ![n] = <<>>]
       /\ mem_sampler' = n
       /\ timing' = [timing EXCEPT !["psjob"] = FileOf(StartRecord(datetime_now))]
       /\ stamps' = [stamps EXCEPT !["psjob"] = [start |-> time_time, stop |-> -1, end |-> -1, by |-> None]]
       /\ StartEffect(n)
       /\ last' = Call("on_job_start", n, "none", Snap(mem_sampler),
                       [data |-> <<>>, running |-> srunning'[n], thread |-> sthread'[n],
                        spawned |-> nthreads'], <<>>)
       /\ prev' = Prev(last)
  /\ UNCHANGED <<now, fgVars, stats, profile, stopReturned, memrayVars>>

\* on_job_end, up to the join inside self.mem_sampler.stop(); the attribute
\* mem_sampler exists only once on_job_start has run
PsOnJobEndBegin ==
  /\ fpc = "idle"
  /\ IF mem_sampler = None
       THEN /\ Return("on_job_end", None, "AttributeError", Snap(None), Snap(None), <<>>)
            /\ UNCHANGED <<srunning, fgVars, stamps>>
       ELSE /\ srunning' = [srunning EXCEPT ![mem_sampler] = FALSE]
            /\ fpc' = "end_join"
            /\ fcur' = mem_sampler
            /\ fpre' = Snap(mem_sampler)
            /\ stamps' = [stamps EXCEPT !["psjob"].stop = time_time]
            /\ UNCHANGED <<last, prev>>
  /\ UNCHANGED <<now, nsamplers, sdata, sthread, threadVars, mem_sampler, stats,
                 fileVars, stopReturned, memrayVars>>

\* an end time read when on_job_end is called, before the sampler is stopped
PsEndTimeAtCall ==
  [sec |-> stamps["psjob"].stop \div UsPerSec, us |-> stamps["psjob"].stop % UsPerSec]

\* end = datetime.now(), read once stop() and get_stats() have returned
PsEndTime == datetime_now

\* on_job_end, from the join on: get_stats(), the timing file completed, the
\* profile file written
PsOnJobEndFinish ==
  /\ fpc = "end_join"
  /\ StopReady(fcur)
  /\ LET s == fcur
         raised == IF StopRaises(s) # "none" THEN StopRaises(s)
                   ELSE EndRaises(timing["psjob"])
         written == EndWrite(timing["psjob"], PsEndTime)
     IN
       /\ sthread' = [sthread EXCEPT ![s] = IF StopGuard(s) /\ Joined(s) THEN None ELSE @]
       /\ stopReturned' = [stopReturned EXCEPT ![s] = (StopRaises(s) = "none")]
       /\ stats' = IF StopRaises(s) = "none" THEN get_stats(s, sdata[s]) ELSE stats
       /\ timing' = IF StopRaises(s) = "none" THEN [timing EXCEPT !["psjob"] = written]
                    ELSE timing
       /\ IF raised = "none"
            THEN /\ profile' = ProfileRecord(written.json, stats')
                 /\ stamps' = [stamps EXCEPT !["psjob"].end = time_time]
            ELSE UNCHANGED <<profile, stamps>>
       /\ last' = Call("on_job_end", s, raised, fpre,
                       [data |-> sdata[s], running |-> srunning[s], thread |-> sthread'[s],
                        spawned |-> nthreads], <<>>)
       /\ prev' = Prev(last)
  /\ fpc' = "idle"
  /\ fcur' = None
  /\ UNCHANGED <<now, nsamplers, sdata, srunning, threadVars, fpre, mem_sampler,
                 memrayVars>>

\* ------------------------------------------ ProfilerCallback (profiler.py)

\* before: self.memray_tracker when the hook was called; an end hook logs its
\* warning when that is None and calls __exit__ on it otherwise
Hook(hook, scope, c, raised, before) ==
  [hook |-> hook, scope |-> scope, c |-> c, raised |-> raised, before |-> before]

NoHook == Hook("none", "none", None, "none", None)

NoNest == [phase |-> "start", mt |-> None, jt |-> None, jobs |-> 0]

\* where a hook leaves controller 1 on the path
\* on_multirun_start (on_job_start on_job_end)* on_multirun_end, every hook returning
NestStep(hook, scope, c, raised, id) ==
  IF nest.phase = "start" /\ c = 1 /\ raised = "none" /\ hook = "start" /\ scope = "multirun"
    THEN [nest EXCEPT !.phase = "multirun", !.mt = id]
  ELSE IF nest.phase = "multirun" /\ c = 1 /\ raised = "none" /\ hook = "start" /\ scope = "job"
    THEN [nest EXCEPT !.phase = "job", !.jt = id]
  ELSE IF nest.phase = "job" /\ c = 1 /\ raised = "none" /\ hook = "end" /\ scope = "job"
    THEN [nest EXCEPT !.phase = "multirun", !.jobs = @ + 1]
  ELSE IF nest.phase = "multirun" /\ c = 1 /\ raised = "none" /\ hook = "end" /\ scope = "multirun"
    THEN [nest EXCEPT !.phase = "done"]
  ELSE [nest EXCEPT !.phase = "off"]

\* a start hook: the Tracker is constructed, assigned to self.memray_tracker and
\* entered, then the timing file is written with its start
StartHook(c, scope) ==
  /\ fpc = "idle"
  /\ ntrackers < MaxTrackers
  /\ LET id == ntrackers + 1 IN
       /\ ntrackers' = id
       /\ memray_tracker' = [memray_tracker EXCEPT ![c] = id]
       /\ trstate' = [trstate EXCEPT ![id] = "active"]
       /\ trkind' = [trkind EXCEPT ![id] = scope]
       /\ timing' = [timing EXCEPT ![scope] = FileOf(StartRecord(datetime_now))]
       /\ stamps' = [stamps EXCEPT ![scope] = [start |-> time_time, stop |-> -1, end |-> -1, by |-> c]]
       /\ tracking' = [tracking EXCEPT ![c] = TRUE]
       /\ mlast' = Hook("start", scope, c, "none", memray_tracker[c])
       /\ nest' = NestStep("start", scope, c, "none", id)
  /\ UNCHANGED <<now, samplerVars, threadVars, fgVars, mem_sampler, stats, profile,
                 last, prev, stopReturned, trexits, copied>>

\* an end hook: a warning when self.memray_tracker is None, __exit__ otherwise;
\* then the timing file is read, completed and written back
EndHook(c, scope) ==
  /\ fpc = "idle"
  /\ memray_tracker[c] # None => trexits[memray_tracker[c]] < MaxExits
  /\ LET tr == memray_tracker[c]
         raised == EndRaises(timing[scope])
     IN
       /\ IF tr = None
            THEN UNCHANGED <<trstate, trexits>>
            ELSE /\ trstate' = [trstate EXCEPT ![tr] = "closed"]
                 /\ trexits' = [trexits EXCEPT ![tr] = @ + 1]
       /\ timing' = [timing EXCEPT ![scope] = EndWrite(@, datetime_now)]
       /\ stamps' = IF raised = "none" THEN [stamps EXCEPT ![scope].end = time_time]
                    ELSE stamps
       /\ mlast' = Hook("end", scope, c, raised, tr)
       /\ nest' = NestStep("end", scope, c, raised, None)
  /\ tracking' = [tracking EXCEPT ![c] = FALSE]
  /\ UNCHANGED <<now, samplerVars, threadVars, fgVars, mem_sampler, stats, profile,
                 last, prev, stopReturned, memray_tracker, ntrackers, trkind, copied>>

on_multirun_start(c) == StartHook(c, "multirun")
on_multirun_end(c) == EndHook(c, "multirun")
on_run_start(c) == StartHook(c, "run")
on_run_end(c) == EndHook(c, "run")
on_job_start(c) == StartHook(c, "job")
on_job_end(c) == EndHook(c, "job")

\* made: a copy exists; tracker: its memray_tracker; original: the original's
\* memray_tracker when the copy was asked for
NoCopy == [asked |-> FALSE, made |-> FALSE, tracker |-> None, original |-> None]

\* the controller is handed to a new process image.  The class defines no
\* __getstate__ / __reduce__: a fork or a by-value copy carries the attribute as
\* it is, and pickling a live Tracker fails
CopyOutcomes(c) ==
  IF memray_tracker[c] = None THEN {"copied"} ELSE {"copied", "TypeError"}

CopyController(c) ==
  /\ fpc = "idle"
  /\ \E outcome \in CopyOutcomes(c) :
       copied' = [asked |-> TRUE, made |-> outcome = "copied",
                  tracker |-> IF outcome = "copied" THEN memray_tracker[c] ELSE None,
                  original |-> memray_tracker[c]]
  /\ UNCHANGED <<now, samplerVars, threadVars, fgVars, mem_sampler, stats, fileVars,
                 histVars, memray_tracker, ntrackers, trstate, trkind, trexits, mlast,
                 tracking, nest>>

\* ------------------------------------------------------ the output directory

\* what an end hook may find in place of the record its start hook wrote: no
\* file, a text that is no JSON, a JSON object without "start"
BrokenFiles ==
  {NoFile, [exists |-> TRUE, parses |-> FALSE, json |-> EmptyDict], FileOf(EmptyDict)}

\* the timing file is removed or overwritten between a start hook and the end
\* hook that reads it (json.loads(timing_fp.read_text()) reads whatever is there)
TimingFileBroken(p) ==
  /\ fpc = "idle"
  /\ timing[p].exists /\ timing[p].parses /\ timing[p].json.keys = {"start"}
  /\ \E f \in BrokenFiles : timing' = [timing EXCEPT ![p] = f]
  /\ UNCHANGED <<now, samplerVars, threadVars, fgVars, mem_sampler, stats, profile,
                 histVars, memrayVars>>

\* ------------------------------------------------------ specifications

Init ==
  /\ now = 0
  /\ nsamplers = 0
  /\ sdata = [s \in Samplers |-> <<>>]
  /\ srunning = [s \in Samplers |-> FALSE]
  /\ sthread = [s \in Samplers |-> None]
  /\ nthreads = 0
  /\ towner = [t \in Threads |-> None]
  /\ tpc = [t \in Threads |-> "unborn"]
  /\ twake = [t \in Threads |-> 0]
  /\ tstamp = [t \in Threads |-> 0]
  /\ fpc = "idle"
  /\ fcur = None
  /\ fpre = Snap(None)
  /\ mem_sampler = None
  /\ stats = NoStats
  /\ timing = [p \in Paths |-> NoFile]
  /\ profile = NoProfile
  /\ last = NoCall
  /\ prev = Prev(NoCall)
  /\ stopReturned = [s \in Samplers |-> FALSE]
  /\ stamps = [p \in Paths |-> NoStamp]
  /\ memray_tracker = [c \in Controllers |-> None]
  /\ ntrackers = 0
  /\ trstate = [t \in Trackers |-> "unused"]
  /\ trkind = [t \in Trackers |-> "none"]
  /\ trexits = [t \in Trackers |-> 0]
  /\ mlast = NoHook
  /\ tracking = [c \in Controllers |-> FALSE]
  /\ copied = NoCopy
  /\ nest = NoNest

\* a client of one MemorySampler
NextSampler ==
  \/ Tick
  \/ Construct
  \/ \E s \in Samplers : Start(s)
  \/ \E s \in Samplers : StopBegin(s)
  \/ \E s \in Samplers : StopEnd(s)
  \/ \E s \in Samplers : GetStats(s)
  \/ \E t \in Threads : SampleCheck(t)
  \/ \E t \in Threads : SampleMeasure(t)
  \/ \E t \in Threads : SampleAppend(t)
  \/ \E t \in Threads : SampleWake(t)

SpecSampler == Init /\ [][NextSampler]_vars

\* the wall clock advances, up to a limit; past the limit time still does not
\* stop while a thread that was told to stop is asleep, so that the limit
\* strands no join
ClockStep(limit) ==
  /\ \/ now < limit
     \/ \E t \in Threads : tpc[t] = "sleep" /\ twake[t] > now /\ ~srunning[towner[t]]
  /\ now' = now + 1
  /\ UNCHANGED <<samplerVars, threadVars, fgVars, mem_sampler, stats, fileVars,
                 histVars, memrayVars>>

\* the clock of the runs of the memory-sampling controller
JobTick == ClockStep(MaxJobTicks)

\* the memory-sampling controller and the sampling threads it starts
Next ==
  \/ JobTick
  \/ (now <= MaxJobTicks /\ PsOnJobStart)
  \/ PsOnJobEndBegin
  \/ PsOnJobEndFinish
  \/ \E t \in Threads : SampleCheck(t)
  \/ \E t \in Threads : SampleMeasure(t)
  \/ \E t \in Threads : SampleAppend(t)
  \/ \E t \in Threads : SampleWake(t)

Spec == Init /\ [][Next]_vars

\* the job scope of the memray controller, in NumControllers instances sharing
\* one output directory
NextJob ==
  \/ Tick
  \/ \E c \in Controllers : on_job_start(c)
  \/ \E c \in Controllers : on_job_end(c)

SpecJob == Init /\ [][NextJob]_vars

\* the memray controller, in NumControllers instances sharing one output directory
NextMemray ==
  \/ Tick
  \/ \E c \in Controllers : on_multirun_start(c)
  \/ \E c \in Controllers : on_multirun_end(c)
  \/ \E c \in Controllers : on_run_start(c)
  \/ \E c \in Controllers : on_run_end(c)
  \/ \E c \in Controllers : on_job_start(c)
  \/ \E c \in Controllers : on_job_end(c)
  \/ \E c \in Controllers : CopyController(c)

SpecMemray == Init /\ [][NextMemray]_vars

\* a run configured with one of the two controllers, its timing file open to
\* removal and overwriting
NextFiles ==
  \/ JobTick
  \/ \E p \in {"psjob", "job"} : TimingFileBroken(p)
  \/ (mlast.hook = "none" /\ nsamplers < MaxBrokenJobs /\ PsOnJobStart)
  \/ (mlast.hook = "none" /\ PsOnJobEndBegin)
  \/ PsOnJobEndFinish
  \/ \E t \in Threads : SampleCheck(t)
  \/ \E t \in Threads : SampleMeasure(t)
  \/ \E t \in Threads : SampleAppend(t)
  \/ \E t \in Threads : SampleWake(t)
  \/ \E c \in Controllers : last.op = "none" /\ on_job_start(c)
  \/ \E c \in Controllers : last.op = "none" /\ on_job_end(c)

SpecFiles == Init /\ [][NextFiles]_vars

\* no sampling thread has a step to take at the present instant, and the
\* foreground task is not inside a call that can go on
Quiet ==
  /\ \A t \in Threads :
       tpc[t] \in {"unborn", "dead"} \/ (tpc[t] = "sleep" /\ twake[t] > now)
  /\ fpc # "idle" => ~StopReady(fcur)

\* the clock of a run in which the loop test, the measurement, the append and
\* the steps of the hooks take no time and time.sleep(interval) lasts exactly
\* interval: time passes only when every sampling thread is asleep and not yet
\* due, and a join that can return has returned
TimedTick == Quiet /\ ClockStep(MaxTimedTicks)

\* the memory-sampling controller under that clock
NextTimed ==
  \/ TimedTick
  \/ PsOnJobStart
  \/ PsOnJobEndBegin
  \/ PsOnJobEndFinish
  \/ \E t \in Threads : SampleCheck(t)
  \/ \E t \in Threads : SampleMeasure(t)
  \/ \E t \in Threads : SampleAppend(t)
  \/ \E t \in Threads : SampleWake(t)

SpecTimed == Init /\ [][NextTimed]_vars

\* the clock of the fair run
LiveTick == ClockStep(MaxTicks)

\* a client of one MemorySampler that starts and stops it
NextLive ==
  \/ LiveTick
  \/ Construct
  \/ \E s \in Samplers : Start(s)
  \/ \E s \in Samplers : StopBegin(s)
  \/ \E s \in Samplers : StopEnd(s)
  \/ \E t \in Threads : SampleCheck(t)
  \/ \E t \in Threads : SampleMeasure(t)
  \/ \E t \in Threads : SampleAppend(t)
  \/ \E t \in Threads : SampleWake(t)

\* time passes, every started thread that can take a step is scheduled in the
\* end, and a join that can return does return
Fairness ==
  /\ WF_vars(LiveTick)
  /\ \A t \in Threads :
       /\ WF_vars(SampleCheck(t))
       /\ WF_vars(SampleMeasure(t))
       /\ WF_vars(SampleAppend(t))
       /\ WF_vars(SampleWake(t))
  /\ \A s \in Samplers : WF_vars(StopEnd(s))

SpecLive == Init /\ [][NextLive]_vars /\ Fairness

\* ------------------------------------------------------------- claims

\* C1: once stop() has returned (and until a later start() of the same sampler),
\* no step appends to the sampler's data; get_stats() called then returns the
\* whole sequence; and after an on_job_end that returned, the samples in the
\* profile file, and the list its get_stats() call returned, are and stay the
\* sampler's sequence, with no sampling thread of it alive.
C1_NoSampleAfterStop ==
  /\ [][\A s \in Samplers : stopReturned[s] => sdata'[s] = sdata[s]]_vars
  /\ [](last.op = "get_stats" /\ stopReturned[last.s] => last.ret.data = sdata[last.s])
  /\ [](last.op = "on_job_end" /\ last.raised = "none" =>
          /\ profile.exists
          /\ profile.json.memory_stats.samples = sdata[last.s]
          /\ StatsData(stats) = sdata[last.s]
          /\ AliveThreads(last.s) = {})

\* C1 witness: an on_job_end has returned whose stop() had to wait for a thread
\* that appended a sample after the call began
C1_Witness ==
  /\ last.op = "on_job_end" /\ last.raised = "none"
  /\ last.pre.running /\ last.pre.thread # None
  /\ Len(last.post.data) > Len(last.pre.data)
  /\ stopReturned[last.s]
  /\ profile.json.memory_stats.samples = last.post.data

\* C2: a start() called while the sampler is running changes none of its fields
\* and starts no thread, and no sampler ever has two sampling threads alive.
C2_StartIdempotent ==
  /\ \A s \in Samplers : Cardinality(AliveThreads(s)) <= 1
  /\ last.op = "start" /\ last.pre.running => last.post = last.pre

\* C2 witness: start() has returned from a call made on a running sampler whose
\* thread is alive
C2_Witness ==
  /\ last.op = "start" /\ last.pre.running
  /\ AliveThreads(last.s) # {}
  /\ prev.op = "start"

\* C3: stop() never raises, be it on a sampler that was never started or right
\* after another stop(), and a second stop() in a row returns with the data,
\* _running and _thread the first one left.
C3_StopIdempotent ==
  /\ last.op = "stop" => last.raised = "none"
  /\ last.op = "stop" /\ prev.op = "stop" =>
       /\ last.post = prev.post
       /\ last.pre = prev.post
       /\ ~last.post.running /\ last.post.thread = None

\* C3 witness: two stop() calls in a row have returned on a sampler that holds samples
C3_Witness ==
  /\ last.op = "stop" /\ prev.op = "stop"
  /\ Len(last.post.data) >= 1
  /\ last.pre.spawned >= 1

\* the sum of the rss values of the first n samples
RECURSIVE RssTotal(_, _)
RssTotal(data, n) == IF n = 0 THEN 0 ELSE RssTotal(data, n - 1) + data[n].rss

\* C4: get_stats() on no samples returns average 0, peak 0 and an empty list; on
\* N >= 1 samples its average is their mean, its peak their greatest rss and its
\* data the whole sequence in order; the call leaves the sampler as it was.
C4_GetStats ==
  last.op = "get_stats" =>
    LET d == last.pre.data
        r == last.ret
    IN /\ last.post = last.pre
       /\ last.raised = "none"
       /\ d = <<>> => r.average = [num |-> 0, den |-> 1] /\ r.peak = 0 /\ r.data = <<>>
       /\ d # <<>> =>
            /\ r.average.den > 0
            /\ r.average.num * Len(d) = r.average.den * RssTotal(d, Len(d))
            /\ \E i \in 1..Len(d) : d[i].rss = r.peak
            /\ \A i \in 1..Len(d) : d[i].rss <= r.peak
            /\ r.data = d

\* C4 witness: get_stats() has returned on samples whose mean is no integer and
\* whose last rss is not the greatest
C4_Witness ==
  /\ last.op = "get_stats"
  /\ Len(last.pre.data) >= 2
  /\ last.ret.average.den = 2
  /\ last.pre.data[Len(last.pre.data)].rss < last.ret.peak

\* the timing record is missing, is no JSON, or lacks "start"
Broken(file) == ~file.exists \/ ~file.parses \/ "start" \notin file.json.keys

\* C11: an end hook that finds the timing record missing, unparsable or without
\* "start" raises, and the step in which it does leaves every timing file as it
\* was (no end, no duration_seconds written) and, in the memory-sampling
\* controller, leaves the profile file as it was.
C11_BrokenTimingRaises ==
  /\ [][fpc = "end_join" /\ fpc' = "idle" /\ Broken(timing["psjob"]) =>
          /\ last'.op = "on_job_end" /\ last'.raised # "none"
          /\ timing' = timing
          /\ profile' = profile]_vars
  /\ [][\A p \in Paths :
          /\ mlast'.hook = "end" /\ mlast'.scope = p
          /\ mlast' # mlast \/ trexits' # trexits
          /\ Broken(timing[p])
          => mlast'.raised # "none" /\ timing' = timing]_vars

\* C11 witness: an on_job_end of the memory-sampling controller has raised on a
\* timing record without "start", its sampler holding samples, and there is
\* no profile file
C11_Witness ==
  /\ last.op = "on_job_end" /\ last.raised = "KeyError"
  /\ Len(last.post.data) >= 1
  /\ timing["psjob"] = FileOf(EmptyDict)
  /\ ~profile.exists

\* the samples are in non-decreasing timestamp order
Ordered(data) ==
  \A i \in 1..(Len(data) - 1) : data[i].timestamp <= data[i + 1].timestamp

\* C12: in every reachable state each sampler's samples are in non-decreasing
\* timestamp order, also when the sampler was stopped and started again, and no
\* sampler has two sampling threads alive (one writer at a time).
C12_SamplesOrdered ==
  \A s \in Samplers :
    /\ Ordered(sdata[s])
    /\ \A t, u \in AliveThreads(s) : t = u

\* C12 witness: a sampler that was stopped and started again holds a sample of
\* its first thread followed by a later sample of its second thread
C12_Witness ==
  /\ last.op = "start" /\ prev.op = "stop"
  /\ Len(last.pre.data) >= 1
  /\ Len(sdata[last.s]) > Len(last.pre.data)
  /\ LET d == sdata[last.s] IN
       /\ d[1].by # d[Len(d)].by
       /\ d[1].timestamp < d[Len(d)].timestamp

\* C13: with the loop test, the measurement and the append taking no time and
\* each sleep lasting exactly the interval i, the number n of samples in the
\* profile of a job is within 1 of d / i, both for d the time from on_job_start
\* to the call of on_job_end (whose stop() ends the sampling) and for d the time
\* to its return; and a job that lasts at least one interval has n >= 1.  A job
\* is an on_job_start followed by the on_job_end that stops its sampler.
C13_SampleCount ==
  fpc = "idle" /\ last.op = "on_job_end" /\ last.raised = "none"
    /\ prev.op = "on_job_start" =>
    LET i == Interval * TickUs
        n == Len(profile.json.memory_stats.samples)
        called == stamps["psjob"].stop - stamps["psjob"].start
        returned == stamps["psjob"].end - stamps["psjob"].start
    IN /\ n * i - called <= i /\ called - n * i <= i
       /\ n * i - returned <= i /\ returned - n * i <= i
       /\ called >= i => n >= 1
       /\ 0 <= called /\ called <= returned

\* C13 witness: on_job_end was called one interval after on_job_start, when the
\* thread had just taken its second sample, and returned one interval later, the
\* profile holding the two samples, taken one interval apart
C13_Witness ==
  /\ fpc = "idle" /\ last.op = "on_job_end" /\ last.raised = "none"
  /\ prev.op = "on_job_start"
  /\ stamps["psjob"].stop - stamps["psjob"].start = Interval * TickUs
  /\ stamps["psjob"].end - stamps["psjob"].start = 2 * Interval * TickUs
  /\ LET d == profile.json.memory_stats.samples IN
       /\ Len(d) = 2
       /\ d[2].timestamp - d[1].timestamp = Interval * TickUs

\* C14: under fair scheduling every stop() the foreground task has entered
\* returns, with no sampling thread of the sampler alive; while it waits in the
\* join the thread appends at most one more sample, and a sleeping thread is due
\* within one interval; and no thread of a sampler is alive once its stop() has
\* returned.
C14_StopReturns ==
  /\ \A s \in Samplers :
       (fpc = "stop_join" /\ fcur = s) ~>
         (fpc = "idle" /\ last.op = "stop" /\ last.s = s /\ last.raised = "none"
            /\ AliveThreads(s) = {})
  /\ [](fpc = "stop_join" =>
          /\ Len(sdata[fcur]) <= Len(fpre.data) + 1
          /\ \A t \in AliveThreads(fcur) : tpc[t] = "sleep" => twake[t] <= now + Interval)
  /\ [](\A s \in Samplers : stopReturned[s] => AliveThreads(s) = {})

\* C14 witness: a stop() called while the thread was between its loop test and
\* its append has returned, after the thread appended that sample, slept out its
\* interval past the end of the client's clock and terminated
C14_Witness ==
  /\ fpc = "idle" /\ last.op = "stop" /\ last.raised = "none"
  /\ last.pre.thread # None
  /\ Len(last.post.data) = Len(last.pre.data) + 1
  /\ AliveThreads(last.s) = {}
  /\ now > MaxTicks

\* C15: the object the last get_stats() returned is a snapshot: its data is
\* still the sequence it held when the call returned, and its average and peak
\* are the mean and the greatest rss of its data, whatever the sampling thread
\* has appended since.
C15_StatsSnapshot ==
  LET d == StatsData(stats) IN
    /\ last.op = "get_stats" => d = last.ret.data
    /\ d = <<>> => stats.average = [num |-> 0, den |-> 1] /\ stats.peak = 0
    /\ d # <<>> =>
         /\ stats.average.num * Len(d) = stats.average.den * RssTotal(d, Len(d))
         /\ \A i \in 1..Len(d) : d[i].rss <= stats.peak
         /\ \E i \in 1..Len(d) : d[i].rss = stats.peak

\* C16: an end hook called with a tracker in self.memray_tracker leaves that
\* tracker closed, and __exit__ is called at most once on any tracker, whatever
\* the sequence of start and end hooks.
C16_ClosedExactlyOnce ==
  /\ mlast.hook = "end" /\ mlast.before # None => trstate[mlast.before] = "closed"
  /\ \A t \in Trackers : trexits[t] <= 1

\* the clock reading, in microseconds, an ISO string of the timing file stands for
IsoUs(str) == str[1] * UsPerSec + (IF Len(str) = 2 THEN str[2] ELSE 0)

\* C17: every sample in a profile file of the memory-sampling controller has a
\* timestamp that is no earlier than the start and no later than the end of the
\* timing record in that profile.
C17_SamplesWithinTiming ==
  profile.exists =>
    LET t == profile.json.timing
        d == profile.json.memory_stats.samples
    IN \A k \in 1..Len(d) :
         IsoUs(t.start) <= d[k].timestamp /\ d[k].timestamp <= IsoUs(t.end)

\* C17 witness: an on_job_end has written a profile with a sample taken at the
\* start of the job and one taken later, at a clock reading with a fractional
\* second
C17_Witness ==
  /\ last.op = "on_job_end" /\ last.raised = "none" /\ prev.op = "on_job_start"
  /\ profile.exists
  /\ LET t == profile.json.timing
         d == profile.json.memory_stats.samples
     IN /\ Len(d) >= 2
        /\ d[1].timestamp = IsoUs(t.start)
        /\ d[Len(d)].timestamp > IsoUs(t.start)
        /\ d[Len(d)].timestamp % UsPerSec # 0

\* C18: when the last hook of the memory-sampling controller is an on_job_end
\* that returned, no sampling thread the controller started is alive, also
\* after two on_job_start in a row.
C18_NoThreadAfterEnd ==
  fpc = "idle" /\ last.op = "on_job_end" /\ last.raised = "none" =>
    \A t \in Threads : tpc[t] \in {"unborn", "dead"}

\* C19: the profile an on_job_end writes holds the samples of the sampler that
\* the latest on_job_start made, each recorded by a thread of that sampler and
\* not before that on_job_start: no sample of an earlier scope is in it.
C19_ProfileOfOwnScope ==
  last.op = "on_job_end" /\ last.raised = "none" =>
    LET d == profile.json.memory_stats.samples IN
      /\ last.s = mem_sampler
      /\ d = sdata[mem_sampler]
      /\ \A k \in 1..Len(d) :
           /\ towner[d[k].by] = mem_sampler
           /\ d[k].timestamp >= stamps["psjob"].start

\* C19 witness: a second job scope has ended after a first one that ended too,
\* both with samples, the second starting later than the first's last sample
C19_Witness ==
  /\ last.op = "on_job_end" /\ last.raised = "none" /\ prev.op = "on_job_start"
  /\ mem_sampler = 2 /\ stopReturned[1] /\ stopReturned[2]
  /\ sdata[1] # <<>>
  /\ profile.json.memory_stats.samples # <<>>
  /\ sdata[1][Len(sdata[1])].timestamp < stamps["psjob"].start

\* C20: after an on_job_end that returned, the timing object in the profile file
\* is the content of the timing file, with start, end and duration_seconds, and
\* the profile's average_rss_bytes and peak_rss_bytes are the mean and the
\* greatest rss of the profile's own samples, 0 and 0 when there are none.
C20_ArtifactsAgree ==
  last.op = "on_job_end" /\ last.raised = "none" =>
    LET m == profile.json.memory_stats
        d == m.samples
    IN /\ profile.exists /\ timing["psjob"].exists /\ timing["psjob"].parses
       /\ profile.json.timing = timing["psjob"].json
       /\ profile.json.timing.keys = {"start", "end", "duration_seconds"}
       /\ d = <<>> => m.average_rss_bytes = [num |-> 0, den |-> 1] /\ m.peak_rss_bytes = 0
       /\ d # <<>> =>
            /\ m.average_rss_bytes.den > 0
            /\ m.average_rss_bytes.num * Len(d) =
                 m.average_rss_bytes.den * RssTotal(d, Len(d))
            /\ \A k \in 1..Len(d) : d[k].rss <= m.peak_rss_bytes
            /\ \E k \in 1..Len(d) : d[k].rss = m.peak_rss_bytes

\* C20 witness: an on_job_end has returned after a job of positive duration
\* with two samples of different rss, the greater one first
C20_Witness ==
  /\ last.op = "on_job_end" /\ last.raised = "none" /\ prev.op = "on_job_start"
  /\ profile.json.timing.duration_seconds > 0
  /\ LET m == profile.json.memory_stats IN
       /\ Len(m.samples) = 2
       /\ m.samples[1].rss > m.samples[2].rss
       /\ m.average_rss_bytes.den = 2
       /\ m.peak_rss_bytes = m.samples[1].rss

\* C5: an end hook called with no tracker (no start hook ran on the controller)
\* returns normally.
C5_IdleEndNeverRaises ==
  mlast.hook = "end" /\ mlast.before = None => mlast.raised = "none"

\* C6: memray_tracker is non-null only between a start hook and the completion
\* of the next end hook.
C6_TrackerOnlyWhileTracking ==
  \A c \in Controllers : memray_tracker[c] # None => tracking[c]

\* C7: a copy of a controller, made in any state, holds no tracker handle, and
\* making it leaves the original's handle as it was.
C7_CopyHoldsNoHandle ==
  copied.made => copied.tracker = None

\* C8: a second on_job_start with no on_job_end in between raises, and leaves the
\* sampler of the first in place.
C8_DoubleStartRaises ==
  last.op = "on_job_start" /\ prev.op = "on_job_start" =>
    last.raised # "none" /\ mem_sampler = prev.s

\* C9: after a start hook the timing record holds exactly start, the clock reading
\* of that hook; after an end hook on the same path it holds start, end and
\* duration_seconds, with start unchanged, end the clock reading of the end hook
\* and duration_seconds = end - start >= 0.
C9_TimingRoundTrip ==
  \A p \in Paths :
    LET st == stamps[p]
        f == timing[p]
    IN /\ st.start >= 0 /\ st.end < 0 =>
            /\ f.exists
            /\ f.json.keys = {"start"}
            /\ IsoUs(f.json.start) = st.start
       /\ st.end >= 0 =>
            /\ f.exists
            /\ f.json.keys = {"start", "end", "duration_seconds"}
            /\ IsoUs(f.json.start) = st.start
            /\ IsoUs(f.json.end) = st.end
            /\ f.json.duration_seconds = st.end - st.start
            /\ f.json.duration_seconds >= 0

\* C9 witness: an end hook of another controller instance than the one that
\* wrote the start has completed the record, the start having a fractional
\* second and the end none
C9_Witness ==
  /\ mlast.hook = "end" /\ mlast.raised = "none"
  /\ stamps[mlast.scope].by # mlast.c
  /\ stamps[mlast.scope].end > stamps[mlast.scope].start
  /\ stamps[mlast.scope].start % UsPerSec # 0
  /\ stamps[mlast.scope].end % UsPerSec = 0
  /\ timing[mlast.scope].json.duration_seconds > 0

\* C10: on the path on_multirun_start (on_job_start on_job_end)* on_multirun_end
\* the multirun's tracker stays active during the jobs, each on_job_end closes
\* the tracker its on_job_start opened, and on_multirun_end closes the tracker
\* on_multirun_start opened.
C10_NestedJobsIndependent ==
  /\ nest.phase \in {"multirun", "job"} => trstate[nest.mt] = "active"
  /\ nest.phase = "job" => trstate[nest.jt] = "active"
  /\ nest.phase = "multirun" /\ nest.jobs > 0 =>
       mlast.before = nest.jt /\ trstate[nest.jt] = "closed"
  /\ nest.phase = "done" => mlast.before = nest.mt /\ trstate[nest.mt] = "closed"

====
